---- MODULE Spec2Model ----
(***************************************************************************)
(* Model of gaspressures.c: the reconstruction of missing cylinder         *)
(* pressures on a dive profile.                                            *)
(*                                                                         *)
(* A plot_info is a record [nr, entry]; entry is a sequence, so the C      *)
(* entry pi->entry[i] is entry[i + 1] here.  A pr_track_t list is a        *)
(* sequence of segment records; the `next' pointer of the k-th segment is  *)
(* the (k+1)-th element, NULL after the last.                              *)
(*                                                                         *)
(* stored and division are history of the last call: the entries it stored *)
(* a pressure into, and the divisors of the divisions it evaluated with    *)
(* the entries at which it left the division out.  A segment has the       *)
(* address malloc gave for it, addr; heap is the number of segments the    *)
(* last call allocated and the addresses it freed, in the order of the     *)
(* calls of free.  access is what the scan of the last call went to        *)
(* through entry - 1 and through current: the indices of the entries it    *)
(* read as entry - 1, and the values of current it wrote an end through.   *)
(***************************************************************************)
EXTENDS Integers, Sequences, FiniteSets, TLC

VARIABLES pi, pi_in, track_scan, track_pr, missing_pr, stored, division, heap,
          access, calls

vars ==
    <<pi, pi_in, track_scan, track_pr, missing_pr, stored, division, heap,
      access, calls>>

----------------------------------------------------------------------------
(* Bounds of the model *)

MaxNr == 4

MaxCalls == 2

(* Inputs *)

TimeStep == 10

Depths == {0, 2000}

Cylinders == {0, 1}

\* what the transmitter of a cylinder reports at a time, when it reports:
\* each cylinder starts from its own pressure and is breathed down
Gauge(cyl, sec) == 200 - 50 * cyl - 3 * (sec \div TimeStep)

(* Inputs of the gap-filling pass taken on its own *)

MaxFill == 5

FillReadings == {0, 170, 199, 200}

Contributions == {5, 10}

(* Inputs of the pass for the diluent track *)

MaxDiluent == 3

DiluentReadings == {0, 140, 150}

(* Inputs for the profiles of one cylinder with entries that share a time *)

MaxInstant == 6

InstantReadings == {0, 198, 200}

InstantDepth == 2000

----------------------------------------------------------------------------
(* Declarations of dive.h / profile.h *)

MAX_CYLINDERS == 8

SURFACE_THRESHOLD == 750

SENSOR_PR == 0

INTERPOLATED_PR == 1

DILUENT_CYLINDER == MAX_CYLINDERS

SENSOR_PRESSURE(entry) == entry.pressure[SENSOR_PR]

INTERPOLATED_PRESSURE(entry) == entry.pressure[INTERPOLATED_PR]

DILUENT_PRESSURE(entry) == entry.diluentpressure[SENSOR_PR]

dive == [surface_pressure |-> 1013]

depth_to_mbar(depth, d) == d.surface_pressure + depth \div 10

----------------------------------------------------------------------------
(* C arithmetic *)

Abs(x) == IF x < 0 THEN -x ELSE x

Sign(x) == IF x < 0 THEN -1 ELSE 1

\* conversion of the real number n / d to int: truncation toward zero
TruncDiv(n, d) == Sign(n) * Sign(d) * (Abs(n) \div Abs(d))

\* rint() of the real number n / d in the default rounding mode:
\* to nearest, ties to the even integer
RintDiv(n, d) ==
    LET an == Abs(n)
        ad == Abs(d)
        q == an \div ad
        r == an % ad
        m == IF 2 * r < ad THEN q
             ELSE IF 2 * r > ad THEN q + 1
             ELSE IF q % 2 = 0 THEN q ELSE q + 1
    IN Sign(n) * Sign(d) * m

----------------------------------------------------------------------------
(* The pr_track_t list *)

NULL == [cyl |-> -1, idx |-> 0]

pr_track_alloc(start, t_start) ==
    [start |-> start, end |-> 0, t_start |-> t_start, t_end |-> t_start,
     pressure_time |-> 0]

\* list_add that links the element in at the head of the list
list_add_at_head(list, element) == <<element>> \o list

list_add(list, element) == Append(list, element)

\* list_free that frees the head of the list only
list_free_head_only(list) ==
    IF list = <<>> THEN <<>> ELSE <<Head(list).addr>>

\* the addresses that list_free(list) passes to free, in the order of the calls
RECURSIVE list_free(_)
list_free(list) ==
    IF list = <<>> THEN <<>>
    ELSE list_free(Tail(list)) \o <<Head(list).addr>>

----------------------------------------------------------------------------
(* fill_missing_segment_pressures *)

\* find_run_end without line 112: a run that reaches the end of the chain
\* without a known end keeps end = 0
RECURSIVE find_run_end_without_fallback(_, _, _, _)
find_run_end_without_fallback(list, start, k, pt_sum) ==
    LET sum == pt_sum + list[k].pressure_time
    IN IF list[k].end # 0
           THEN [tmp |-> k, end |-> list[k].end, pt_sum |-> sum]
       ELSE IF k = Len(list)
           THEN [tmp |-> k, end |-> 0, pt_sum |-> sum]
       ELSE find_run_end_without_fallback(list, start, k + 1, sum)

\* the first for (;;): from segment k on, the segment `tmp' that ends the
\* run, with `end' and `pt_sum' as they are when the loop is left
RECURSIVE find_run_end(_, _, _, _)
find_run_end(list, start, k, pt_sum) ==
    LET sum == pt_sum + list[k].pressure_time
    IN IF list[k].end # 0
           THEN [tmp |-> k, end |-> list[k].end, pt_sum |-> sum]
       ELSE IF k = Len(list)
           THEN [tmp |-> k, end |-> start, pt_sum |-> sum]
       ELSE find_run_end(list, start, k + 1, sum)

\* dole_pressure without the cast to double: pt / pt_sum is an integer division
dole_pressure_integer_division(start, end, pt, pt_sum) ==
    IF pt_sum # 0
        THEN start - (start - end) * TruncDiv(pt, pt_sum)
        ELSE start

\* dole_pressure with the pressure rounded to the nearest integer
dole_pressure_rounding(start, end, pt, pt_sum) ==
    IF pt_sum # 0
        THEN RintDiv(start * pt_sum - (start - end) * pt, pt_sum)
        ELSE start

\* pressure = start; if (pt_sum) pressure -= (start - end) * (double)pt / pt_sum;
dole_pressure(start, end, pt, pt_sum) ==
    IF pt_sum # 0
        THEN TruncDiv(start * pt_sum - (start - end) * pt, pt_sum)
        ELSE start

\* the second for (;;): dole out the pressures from segment k to `tmp'
RECURSIVE dole_out(_, _, _, _, _, _, _)
dole_out(list, k, tmp, start, end, pt_sum, pt0) ==
    LET pt == pt0 + list[k].pressure_time
        pressure == dole_pressure(start, end, pt, pt_sum)
        l1 == [list EXCEPT ![k].end = pressure]
    IN IF k = tmp
           THEN l1
           ELSE dole_out([l1 EXCEPT ![k + 1].start = pressure],
                         k + 1, tmp, start, end, pt_sum, pt)

\* the while (list) loop, `k' being the position of `list'
RECURSIVE fill_segments_from(_, _)
fill_segments_from(list, k) ==
    IF k > Len(list)
        THEN list
        ELSE LET run == find_run_end(list, list[k].start, k, 0)
                 start == IF list[k].start = 0 THEN run.end ELSE list[k].start
                 l1 == [list EXCEPT ![k].start = start, ![run.tmp].end = run.end]
                 l2 == dole_out(l1, k, run.tmp, start, run.end, run.pt_sum, 0)
             IN fill_segments_from(l2, run.tmp + 1)

fill_missing_segment_pressures(list) == fill_segments_from(list, 1)

\* the runs 'list'..'tmp' the while loop goes through, each with the `start',
\* `end' and `pt_sum' it is doled out with
RECURSIVE runs_from(_, _)
runs_from(list, k) ==
    IF k > Len(list)
        THEN <<>>
        ELSE LET run == find_run_end(list, list[k].start, k, 0)
                 start == IF list[k].start = 0 THEN run.end ELSE list[k].start
             IN <<[first |-> k, last |-> run.tmp, start |-> start,
                   end |-> run.end, pt_sum |-> run.pt_sum]>>
                    \o runs_from(list, run.tmp + 1)

\* lines 135-136: the divisor of the division a run is doled out with, if
\* the division is evaluated
dole_divisors(pt_sum) == IF pt_sum # 0 THEN {pt_sum} ELSE {}

\* the divisors of the divisions fill_missing_segment_pressures evaluates
segment_divisors(list) ==
    LET runs == runs_from(list, 1)
    IN UNION {dole_divisors(runs[r].pt_sum) : r \in 1 .. Len(runs)}

----------------------------------------------------------------------------
(* calc_pressure_time *)

\* calc_pressure_time with the depth of the later entry for the mean depth
calc_pressure_time_end_depth(dv, a, b) ==
    LET time == b.sec - a.sec
        depth == b.depth
    IN IF depth <= SURFACE_THRESHOLD
           THEN 0
           ELSE depth_to_mbar(depth, dv) * time

calc_pressure_time(dv, a, b) ==
    LET time == b.sec - a.sec
        depth == (a.depth + b.depth) \div 2
    IN IF depth <= SURFACE_THRESHOLD
           THEN 0
           ELSE depth_to_mbar(depth, dv) * time

----------------------------------------------------------------------------
(* populate_pressure_information: the scan of lines 326-361 *)

\* line 27: the address malloc returns, one that it has not given before
malloc(s) == s.allocated + 1

alloc_and_add(s, cyl, pressure, sec) ==
    [s EXCEPT !.cylinderindex = cyl,
              !.track_pr[cyl] =
                  list_add(@, [addr |-> malloc(s)] @@ pr_track_alloc(pressure, sec)),
              !.allocated = malloc(s),
              !.current = [cyl |-> cyl, idx |-> Len(s.track_pr[cyl]) + 1]]

\* scan_entry with entry->pressure_time += ... for line 334
scan_entry_accumulating(s, i, pressure_time) ==
    LET entry == s.pi.entry[i + 1]
        pressure == SENSOR_PRESSURE(entry)
        c == s.current
        s1 == IF c # NULL
                  THEN [s EXCEPT !.pi.entry[i + 1].pressure_time = @ + pressure_time,
                                 !.track_pr[c.cyl][c.idx].pressure_time =
                                     @ + pressure_time,
                                 !.track_pr[c.cyl][c.idx].t_end = entry.sec]
                  ELSE s
    IN IF entry.cylinderindex # s1.cylinderindex
           THEN alloc_and_add(s1, entry.cylinderindex, pressure, entry.sec)
       ELSE IF pressure = 0
           THEN [s1 EXCEPT !.missing_pr = TRUE]
       ELSE LET s2 == [s1 EXCEPT !.track_pr[c.cyl][c.idx].end = pressure]
            IN IF SENSOR_PRESSURE(s.pi.entry[i]) # 0
                   THEN s2
                   ELSE alloc_and_add(s2, s2.cylinderindex, pressure, entry.sec)

\* scan_entry with lines 333-337 after the segment is opened: the interval
\* that ends at a cylinder switch is credited to the new segment
scan_entry_crediting_new(s, i, pressure_time) ==
    LET entry == s.pi.entry[i + 1]
        pressure == SENSOR_PRESSURE(entry)
        s0 == IF entry.cylinderindex # s.cylinderindex
                  THEN alloc_and_add(s, entry.cylinderindex, pressure, entry.sec)
                  ELSE s
        c == s0.current
        s1 == IF s.current # NULL
                  THEN [s0 EXCEPT !.pi.entry[i + 1].pressure_time = pressure_time,
                                  !.track_pr[c.cyl][c.idx].pressure_time =
                                      @ + pressure_time,
                                  !.track_pr[c.cyl][c.idx].t_end = entry.sec]
                  ELSE s0
    IN IF entry.cylinderindex # s.cylinderindex
           THEN s1
       ELSE IF pressure = 0
           THEN [s1 EXCEPT !.missing_pr = TRUE]
       ELSE LET s2 == [s1 EXCEPT !.track_pr[c.cyl][c.idx].end = pressure]
            IN IF SENSOR_PRESSURE(s.pi.entry[i]) # 0
                   THEN s2
                   ELSE alloc_and_add(s2, s2.cylinderindex, pressure, entry.sec)

\* scan_entry without lines 354-360: a reading after a gap closes no segment
scan_entry_without_recovery(s, i, pressure_time) ==
    LET entry == s.pi.entry[i + 1]
        pressure == SENSOR_PRESSURE(entry)
        c == s.current
        s1 == IF c # NULL
                  THEN [s EXCEPT !.pi.entry[i + 1].pressure_time = pressure_time,
                                 !.track_pr[c.cyl][c.idx].pressure_time =
                                     @ + pressure_time,
                                 !.track_pr[c.cyl][c.idx].t_end = entry.sec]
                  ELSE s
    IN IF entry.cylinderindex # s1.cylinderindex
           THEN alloc_and_add(s1, entry.cylinderindex, pressure, entry.sec)
       ELSE IF pressure = 0
           THEN [s1 EXCEPT !.missing_pr = TRUE]
       ELSE [s1 EXCEPT !.track_pr[c.cyl][c.idx].end = pressure]

\* scan_entry with line 352 after the recovery: the reading that ends a
\* gap becomes the end of the fresh segment, not of the one being closed
scan_entry_end_on_fresh(s, i, pressure_time) ==
    LET entry == s.pi.entry[i + 1]
        pressure == SENSOR_PRESSURE(entry)
        c == s.current
        s1 == IF c # NULL
                  THEN [s EXCEPT !.pi.entry[i + 1].pressure_time = pressure_time,
                                 !.track_pr[c.cyl][c.idx].pressure_time =
                                     @ + pressure_time,
                                 !.track_pr[c.cyl][c.idx].t_end = entry.sec]
                  ELSE s
        s2 == IF SENSOR_PRESSURE(s.pi.entry[i]) # 0
                  THEN s1
                  ELSE alloc_and_add(s1, s1.cylinderindex, pressure, entry.sec)
    IN IF entry.cylinderindex # s1.cylinderindex
           THEN alloc_and_add(s1, entry.cylinderindex, pressure, entry.sec)
       ELSE IF pressure = 0
           THEN [s1 EXCEPT !.missing_pr = TRUE]
       ELSE [s2 EXCEPT !.track_pr[s2.current.cyl][s2.current.idx].end = pressure]

\* scan_entry with (entry - 1)->sec for entry->sec in line 336: the current
\* segment ends at the time of the entry before
scan_entry_end_time_of_predecessor(s, i, pressure_time) ==
    LET entry == s.pi.entry[i + 1]
        pressure == SENSOR_PRESSURE(entry)
        c == s.current
        s1 == IF c # NULL
                  THEN [s EXCEPT !.pi.entry[i + 1].pressure_time = pressure_time,
                                 !.track_pr[c.cyl][c.idx].pressure_time =
                                     @ + pressure_time,
                                 !.track_pr[c.cyl][c.idx].t_end = s.pi.entry[i].sec]
                  ELSE s
    IN IF entry.cylinderindex # s1.cylinderindex
           THEN alloc_and_add(s1, entry.cylinderindex, pressure, entry.sec)
       ELSE IF pressure = 0
           THEN [s1 EXCEPT !.missing_pr = TRUE]
       ELSE LET s2 == [s1 EXCEPT !.track_pr[c.cyl][c.idx].end = pressure]
            IN IF SENSOR_PRESSURE(s.pi.entry[i]) # 0
                   THEN s2
                   ELSE alloc_and_add(s2, s2.cylinderindex, pressure, entry.sec)

\* scan_entry after `cylinderindex = 0' for line 326: an entry on cylinder 0
\* that comes first is taken for one that stays on its cylinder.  current
\* is then NULL at line 352 and entry - 1 lies before the profile at line
\* 355; of what may follow, this takes the write to be lost and the read to
\* find no pressure
scan_entry_first_cylinder_assumed(s, i, pressure_time) ==
    LET entry == s.pi.entry[i + 1]
        pressure == SENSOR_PRESSURE(entry)
        c == s.current
        cylinderindex == IF s.cylinderindex = -1 THEN 0 ELSE s.cylinderindex
        before == IF i >= 1 THEN SENSOR_PRESSURE(s.pi.entry[i]) ELSE 0
        s1 == IF c # NULL
                  THEN [s EXCEPT !.pi.entry[i + 1].pressure_time = pressure_time,
                                 !.track_pr[c.cyl][c.idx].pressure_time =
                                     @ + pressure_time,
                                 !.track_pr[c.cyl][c.idx].t_end = entry.sec,
                                 !.access.predecessor = @ \cup {i - 1}]
                  ELSE s
        s2 == [s1 EXCEPT !.access.current = @ \cup {c},
                         !.access.predecessor = @ \cup {i - 1}]
        s3 == IF c # NULL
                  THEN [s2 EXCEPT !.track_pr[c.cyl][c.idx].end = pressure]
                  ELSE s2
    IN IF entry.cylinderindex # cylinderindex
           THEN alloc_and_add(s1, entry.cylinderindex, pressure, entry.sec)
       ELSE IF pressure = 0
           THEN [s1 EXCEPT !.missing_pr = TRUE]
       ELSE IF before # 0
           THEN s3
       ELSE alloc_and_add(s3, cylinderindex, pressure, entry.sec)

\* one iteration of the for loop; pressure_time is the value that line 334
\* gets from calc_pressure_time
scan_entry(s, i, pressure_time) ==
    LET entry == s.pi.entry[i + 1]
        pressure == SENSOR_PRESSURE(entry)
        c == s.current
        s1 == IF c # NULL
                  THEN [s EXCEPT !.pi.entry[i + 1].pressure_time = pressure_time,
                                 !.track_pr[c.cyl][c.idx].pressure_time =
                                     @ + pressure_time,
                                 !.track_pr[c.cyl][c.idx].t_end = entry.sec,
                                 !.access.predecessor = @ \cup {i - 1}]
                  ELSE s
    IN IF entry.cylinderindex # s1.cylinderindex
           THEN alloc_and_add(s1, entry.cylinderindex, pressure, entry.sec)
       ELSE IF pressure = 0
           THEN [s1 EXCEPT !.missing_pr = TRUE]
       ELSE LET s2 == [s1 EXCEPT !.track_pr[c.cyl][c.idx].end = pressure,
                                 !.access.current = @ \cup {c},
                                 !.access.predecessor = @ \cup {i - 1}]
            IN IF SENSOR_PRESSURE(s.pi.entry[i]) # 0
                   THEN s2
                   ELSE alloc_and_add(s2, s2.cylinderindex, pressure, entry.sec)

RECURSIVE scan_from(_, _, _)
scan_from(s, i, pts) ==
    IF i >= s.pi.nr
        THEN s
        ELSE scan_from(scan_entry(s, i, pts[i + 1]), i + 1, pts)

NothingAccessed == [predecessor |-> {}, current |-> {}]

scan_start(p) ==
    [pi |-> p,
     track_pr |-> [cyl \in 0 .. MAX_CYLINDERS - 1 |-> <<>>],
     current |-> NULL,
     cylinderindex |-> -1,
     missing_pr |-> FALSE,
     allocated |-> 0,
     access |-> NothingAccessed]

\* what calc_pressure_time(dive, dc, entry - 1, entry) returns at each entry
pressure_times(p) ==
    [k \in 1 .. p.nr |->
        IF k = 1 THEN 0 ELSE calc_pressure_time(dive, p.entry[k - 1], p.entry[k])]

build_scan(p) == scan_from(scan_start(p), 0, pressure_times(p))

----------------------------------------------------------------------------
(* get_pr_interpolate_data *)

tank_pressure(entry, diluent_flag) ==
    IF diluent_flag THEN DILUENT_PRESSURE(entry) ELSE SENSOR_PRESSURE(entry)

\* the for loop from index i on; `ip' is the struct `interpolate'
RECURSIVE interpolate_from(_, _, _, _, _, _)
interpolate_from(segment, p, cur, diluent_flag, i, ip) ==
    IF i >= p.nr
        THEN ip
        ELSE
    LET entry == p.entry[i + 1]
        pressure == tank_pressure(entry, diluent_flag)
        both == [ip EXCEPT !.acc_pressure_time = @ + entry.pressure_time,
                           !.pressure_time = @ + entry.pressure_time]
        more == [ip EXCEPT !.pressure_time = @ + entry.pressure_time]
        reset == [ip EXCEPT !.acc_pressure_time = 0, !.pressure_time = 0]
        restart == [reset EXCEPT !.start = pressure]
        next(x) == interpolate_from(segment, p, cur, diluent_flag, i + 1, x)
    IN IF entry.sec < segment.t_start
           THEN next(ip)
       ELSE IF entry.sec >= segment.t_end
           THEN more
       ELSE IF entry.sec = segment.t_start
           THEN next(IF pressure # 0 THEN restart ELSE reset)
       ELSE IF i < cur
           THEN next(IF pressure # 0 THEN restart ELSE both)
       ELSE IF i = cur
           THEN next(both)
       ELSE IF pressure # 0
           THEN [more EXCEPT !.end = pressure]
       ELSE next(more)

get_pr_interpolate_data(segment, p, cur, diluent_flag) ==
    interpolate_from(segment, p, cur, diluent_flag, 0,
                     [start |-> segment.start, end |-> segment.end,
                      acc_pressure_time |-> 0, pressure_time |-> 0])

----------------------------------------------------------------------------
(* fill_missing_tank_pressures *)

\* lines 221-229: the chains with their missing pressures filled in
filled_tracks(tracks) ==
    [cyl \in DOMAIN tracks |->
        IF tracks[cyl] = <<>> THEN <<>>
        ELSE fill_missing_segment_pressures(tracks[cyl])]

\* starting_pressures without line 228: every cylinder is left with the
\* value of a cylinder that has no segment
starting_pressures_unset(tracks) ==
    [cyl \in 0 .. MAX_CYLINDERS - 1 |-> -1]

\* lines 221-229: the starting pressure kept for each cylinder
starting_pressures(tracks) ==
    [cyl \in 0 .. MAX_CYLINDERS - 1 |->
        IF tracks[cyl] = <<>> THEN -1 ELSE tracks[cyl][1].start]

\* lines 273-275: the first segment from k on whose t_end is not before sec;
\* 0 when the list runs out (segment == NULL)
RECURSIVE find_segment(_, _, _)
find_segment(list, k, sec) ==
    IF k > Len(list) THEN 0
    ELSE IF list[k].t_end < sec THEN find_segment(list, k + 1, sec)
    ELSE k

\* interpolated_pressure with round() for rint(): ties away from zero
interpolated_pressure_half_away(ip) ==
    LET n == ip.start * ip.pressure_time
                 + (ip.end - ip.start) * ip.acc_pressure_time
        d == ip.pressure_time
    IN Sign(n) * Sign(d) * ((2 * Abs(n) + Abs(d)) \div (2 * Abs(d)))

\* interpolated_pressure with a conversion to int for rint(): the fraction
\* is cut off
interpolated_pressure_truncated(ip) ==
    TruncDiv(ip.start * ip.pressure_time
                 + (ip.end - ip.start) * ip.acc_pressure_time,
             ip.pressure_time)

\* interpolated_pressure with the sign of the rate wrong:
\* rint(interpolate.start - magic * interpolate.acc_pressure_time)
interpolated_pressure_rate_negated(ip) ==
    RintDiv(ip.start * ip.pressure_time
                - (ip.end - ip.start) * ip.acc_pressure_time,
            ip.pressure_time)

\* rint(interpolate.start + magic * interpolate.acc_pressure_time)
interpolated_pressure(ip) ==
    RintDiv(ip.start * ip.pressure_time
                + (ip.end - ip.start) * ip.acc_pressure_time,
            ip.pressure_time)

\* *save_pressure = v
save_pressure(t, i, diluent_flag, v) ==
    IF diluent_flag
        THEN [t EXCEPT !.pi.entry[i + 1].diluentpressure[SENSOR_PR] = v,
                       !.stored.sensor = @ \cup {i}]
        ELSE [t EXCEPT !.pi.entry[i + 1].pressure[SENSOR_PR] = v,
                       !.stored.sensor = @ \cup {i}]

\* *save_interpolated = v
save_interpolated(t, i, diluent_flag, v) ==
    IF diluent_flag
        THEN [t EXCEPT !.pi.entry[i + 1].diluentpressure[INTERPOLATED_PR] = v,
                       !.stored.interpolated = @ \cup {i}]
        ELSE [t EXCEPT !.pi.entry[i + 1].pressure[INTERPOLATED_PR] = v,
                       !.stored.interpolated = @ \cup {i}]

\* tank_entry without the `continue' of line 269: an entry that has a
\* reading is interpolated like the others
tank_entry_no_skip(t, tracks, i, diluent_flag) ==
    LET entry == t.pi.entry[i + 1]
        cyl == IF diluent_flag THEN DILUENT_CYLINDER ELSE entry.cylinderindex
        pressure == tank_pressure(entry, diluent_flag)
        t0 == IF pressure # 0 THEN [t EXCEPT !.cur_pr[cyl] = pressure] ELSE t
        k == find_segment(tracks[cyl], 1, entry.sec)
        segment == tracks[cyl][k]
        interpolate == get_pr_interpolate_data(segment, t0.pi, i, diluent_flag)
        t1 == IF interpolate.pressure_time # 0
                  THEN [t0 EXCEPT !.cur_pr[cyl] = interpolated_pressure(interpolate),
                                  !.division.divisors =
                                      @ \cup {interpolate.pressure_time}]
                  ELSE [t0 EXCEPT !.division.skipped = @ \cup {i}]
    IN IF k = 0 \/ segment.pressure_time = 0
           THEN save_pressure(t0, i, diluent_flag, t0.cur_pr[cyl])
           ELSE save_interpolated(t1, i, diluent_flag, t1.cur_pr[cyl])

\* tank_entry without the test of line 285: the rate is computed whatever
\* the pressure-time of the window; a division by 0 gives no number, and the
\* conversion of rint() of it to int gives INT_MIN on the usual targets
tank_entry_unguarded_rate(t, tracks, i, diluent_flag) ==
    LET entry == t.pi.entry[i + 1]
        cyl == IF diluent_flag THEN DILUENT_CYLINDER ELSE entry.cylinderindex
        pressure == tank_pressure(entry, diluent_flag)
        k == find_segment(tracks[cyl], 1, entry.sec)
        segment == tracks[cyl][k]
        interpolate == get_pr_interpolate_data(segment, t.pi, i, diluent_flag)
        t1 == [t EXCEPT !.cur_pr[cyl] =
                            IF interpolate.pressure_time # 0
                                THEN interpolated_pressure(interpolate)
                                ELSE -2147483647 - 1,
                        !.division.divisors = @ \cup {interpolate.pressure_time}]
    IN IF pressure # 0
           THEN [t EXCEPT !.cur_pr[cyl] = pressure]
       ELSE IF k = 0 \/ segment.pressure_time = 0
           THEN save_pressure(t, i, diluent_flag, t.cur_pr[cyl])
       ELSE save_interpolated(t1, i, diluent_flag, t1.cur_pr[cyl])

\* one iteration of the for loop of lines 246-293
tank_entry(t, tracks, i, diluent_flag) ==
    LET entry == t.pi.entry[i + 1]
        cyl == IF diluent_flag THEN DILUENT_CYLINDER ELSE entry.cylinderindex
        pressure == tank_pressure(entry, diluent_flag)
        k == find_segment(tracks[cyl], 1, entry.sec)
        segment == tracks[cyl][k]
        interpolate == get_pr_interpolate_data(segment, t.pi, i, diluent_flag)
        t1 == IF interpolate.pressure_time # 0
                  THEN [t EXCEPT !.cur_pr[cyl] = interpolated_pressure(interpolate),
                                 !.division.divisors =
                                     @ \cup {interpolate.pressure_time}]
                  ELSE [t EXCEPT !.division.skipped = @ \cup {i}]
    IN IF pressure # 0
           THEN [t EXCEPT !.cur_pr[cyl] = pressure]
       ELSE IF k = 0 \/ segment.pressure_time = 0
           THEN save_pressure(t, i, diluent_flag, t.cur_pr[cyl])
       ELSE save_interpolated(t1, i, diluent_flag, t1.cur_pr[cyl])

RECURSIVE tank_from(_, _, _, _)
tank_from(t, tracks, i, diluent_flag) ==
    IF i >= t.pi.nr
        THEN t
        ELSE tank_from(tank_entry(t, tracks, i, diluent_flag), tracks,
                       i + 1, diluent_flag)

NothingStored == [sensor |-> {}, interpolated |-> {}]

NothingDivided == [divisors |-> {}, skipped |-> {}]

\* lines 221-229: the divisors of the divisions evaluated for the chains
track_divisors(tracks) ==
    UNION {segment_divisors(tracks[cyl]) : cyl \in DOMAIN tracks}

\* the profile, the chains and the last-known pressures when the function
\* returns, with the indices of the entries it stored into and the
\* divisions it evaluated
fill_missing_tank_pressures(p, tracks, diluent_flag) ==
    LET filled == filled_tracks(tracks)
        t == tank_from([pi |-> p, cur_pr |-> starting_pressures(filled),
                        stored |-> NothingStored,
                        division |-> [NothingDivided EXCEPT
                                         !.divisors = track_divisors(tracks)]],
                       filled, 1, diluent_flag)
    IN [pi |-> t.pi, track_pr |-> filled, cur_pr |-> t.cur_pr,
        stored |-> t.stored, division |-> t.division]

\* fill_missing_tank_pressures with diluent_flag set.  cyl is then
\* DILUENT_CYLINDER for every entry, an index past the end of track_pr and
\* of cur_pr, which both have MAX_CYLINDERS elements: the loop of lines
\* 221-229 does not get there, and what the reads of lines 273 and 278 find
\* is whatever lies behind the arrays, `beyond'.
diluent_tank_pressures(p, tracks, beyond) ==
    LET filled == filled_tracks(tracks)
        table == [cyl \in 0 .. DILUENT_CYLINDER |->
                     IF cyl \in DOMAIN filled THEN filled[cyl]
                     ELSE beyond.track]
        cur_pr == [cyl \in 0 .. DILUENT_CYLINDER |->
                      IF cyl \in DOMAIN filled
                          THEN starting_pressures(filled)[cyl]
                          ELSE beyond.cur_pr]
        t == tank_from([pi |-> p, cur_pr |-> cur_pr,
                        stored |-> NothingStored,
                        division |-> [NothingDivided EXCEPT
                                         !.divisors = track_divisors(tracks)]],
                       table, 1, TRUE)
    IN [pi |-> t.pi, track_pr |-> filled, cur_pr |-> t.cur_pr,
        stored |-> t.stored, division |-> t.division]

----------------------------------------------------------------------------
(* populate_pressure_information *)

\* lines 366-367: the addresses freed, chain after chain
RECURSIVE free_tracks(_, _)
free_tracks(tracks, i) ==
    IF i >= MAX_CYLINDERS THEN <<>>
    ELSE list_free(tracks[i]) \o free_tracks(tracks, i + 1)

\* populate_pressure_information without the test of line 363: the
\* gap-filling pass is run on every profile
populate_pressure_information_ungated(p) ==
    LET s == build_scan(p)
        f == fill_missing_tank_pressures(s.pi, s.track_pr, FALSE)
    IN [pi |-> f.pi, track_scan |-> s.track_pr, track_pr |-> f.track_pr,
        missing_pr |-> s.missing_pr, stored |-> f.stored,
        division |-> f.division,
        heap |-> [allocated |-> s.allocated,
                  freed |-> free_tracks(f.track_pr, 0)],
        access |-> s.access]

populate_pressure_information(p) ==
    LET s == build_scan(p)
        f == fill_missing_tank_pressures(s.pi, s.track_pr, FALSE)
        h == [allocated |-> s.allocated,
              freed |-> free_tracks(IF s.missing_pr THEN f.track_pr ELSE s.track_pr,
                                    0)]
    IN [heap |-> h, access |-> s.access] @@
       IF s.missing_pr
           THEN [pi |-> f.pi, track_scan |-> s.track_pr, track_pr |-> f.track_pr,
                 missing_pr |-> TRUE, stored |-> f.stored,
                 division |-> f.division]
           ELSE [pi |-> s.pi, track_scan |-> s.track_pr, track_pr |-> s.track_pr,
                 missing_pr |-> FALSE, stored |-> NothingStored,
                 division |-> NothingDivided]

----------------------------------------------------------------------------
(* The profiles handed to populate_pressure_information *)

plot_data(sec, depth, cyl, pressure) ==
    [sec |-> sec, depth |-> depth, cylinderindex |-> cyl,
     pressure |-> [k \in {SENSOR_PR, INTERPOLATED_PR} |->
                      IF k = SENSOR_PR THEN pressure ELSE 0],
     diluentpressure |-> [k \in {SENSOR_PR, INTERPOLATED_PR} |-> 0],
     pressure_time |-> 0]

\* what an entry adds to its predecessor: it is a second entry for the same
\* instant (same time, same depth) or a sample one time step later at some
\* depth; it names a cylinder and has a reading or none
Samples ==
    {s \in [later : BOOLEAN, depth : Depths, cyl : Cylinders, reports : BOOLEAN] :
        ~s.later => s.depth = 0}

reading(s, sec) == IF s.reports THEN Gauge(s.cyl, sec) ELSE 0

\* the entries for the samples of one dive, the first one at time 0
RECURSIVE entries_of(_, _)
entries_of(samples, n) ==
    IF n = 0 THEN <<>>
    ELSE IF n = 1
        THEN <<plot_data(0, samples[1].depth, samples[1].cyl, reading(samples[1], 0))>>
    ELSE LET before == entries_of(samples, n - 1)
             last == before[n - 1]
             s == samples[n]
         IN Append(before,
                   IF s.later
                       THEN plot_data(last.sec + TimeStep, s.depth, s.cyl,
                                      reading(s, last.sec + TimeStep))
                       ELSE plot_data(last.sec, last.depth, s.cyl,
                                      reading(s, last.sec)))

plot_info(samples) ==
    [nr |-> Len(samples), entry |-> entries_of(samples, Len(samples))]

\* the profiles of n entries; the first entry is on the first cylinder, and
\* a second entry for the same instant is given the depth it gets
IsProfile(p, n) ==
    \E samples \in [1 .. n -> Samples] :
        /\ n > 0 => samples[1].later /\ samples[1].cyl = 0
        /\ p = plot_info(samples)

----------------------------------------------------------------------------
(* The calls of populate_pressure_information on one profile *)

NoTracks == [cyl \in 0 .. MAX_CYLINDERS - 1 |-> <<>>]

Init ==
    /\ \E n \in 0 .. MaxNr : IsProfile(pi, n)
    /\ pi_in = pi
    /\ track_scan = NoTracks
    /\ track_pr = NoTracks
    /\ missing_pr = FALSE
    /\ stored = NothingStored
    /\ division = NothingDivided
    /\ heap = [allocated |-> 0, freed |-> <<>>]
    /\ access = NothingAccessed
    /\ calls = 0

Populate ==
    /\ calls < MaxCalls
    /\ \E r \in {populate_pressure_information(pi)} :
          /\ pi' = r.pi
          /\ track_scan' = r.track_scan
          /\ track_pr' = r.track_pr
          /\ missing_pr' = r.missing_pr
          /\ stored' = r.stored
          /\ division' = r.division
          /\ heap' = r.heap
          /\ access' = r.access
    /\ pi_in' = pi
    /\ calls' = calls + 1

Next == Populate

Spec == Init /\ [][Next]_vars

----------------------------------------------------------------------------
(* The gap-filling pass on its own: the state at line 363, with the       *)
(* pressure-time contributions of the entries given rather than computed  *)
(* from depths, and the chains the scan builds for them                   *)

fill_entry(k, cyl, pressure, pressure_time) ==
    [plot_data(TimeStep * (k - 1), 0, cyl, pressure)
        EXCEPT !.pressure_time = pressure_time]

\* the entries are one time step apart; only the first cylinder has a
\* transmitter
FillSamples ==
    {s \in [cyl : Cylinders, pressure : FillReadings, pt : Contributions] :
        s.cyl # 0 => s.pressure = 0}

IsFillProfile(p, n) ==
    \E samples \in [1 .. n -> FillSamples] :
        /\ samples[1].cyl = 0
        /\ \A pt \in Contributions : samples[1].pt <= pt
        /\ p = [nr |-> n,
                entry |-> [k \in 1 .. n |->
                              fill_entry(k, samples[k].cyl, samples[k].pressure,
                                         IF k = 1 THEN 0 ELSE samples[k].pt)]]

InitFill ==
    /\ \E n \in 1 .. MaxFill : IsFillProfile(pi, n)
    /\ pi_in = pi
    /\ \E s \in {scan_from(scan_start(pi), 0,
                           [k \in 1 .. pi.nr |-> pi.entry[k].pressure_time])} :
          /\ track_scan = s.track_pr
          /\ track_pr = s.track_pr
          /\ missing_pr = s.missing_pr
          /\ heap = [allocated |-> s.allocated, freed |-> <<>>]
          /\ access = s.access
    /\ stored = NothingStored
    /\ division = NothingDivided
    /\ calls = 0

FillMissing ==
    /\ calls = 0
    /\ missing_pr
    /\ \E f \in {fill_missing_tank_pressures(pi, track_pr, FALSE)} :
          /\ pi' = f.pi
          /\ track_pr' = f.track_pr
          /\ stored' = f.stored
          /\ division' = f.division
    /\ calls' = 1
    /\ UNCHANGED <<pi_in, track_scan, missing_pr, heap, access>>

NextFill == FillMissing

SpecFill == InitFill /\ [][NextFill]_vars

----------------------------------------------------------------------------
(* The gap-filling pass for the diluent track: fill_missing_tank_pressures *)
(* with diluent_flag set, on the chains the scan has built                 *)

\* entries of one cylinder, one time step apart, with a reading of the
\* cylinder or none and a reading of the diluent or none
DiluentSamples ==
    [pressure : {0, 200}, diluent : DiluentReadings, pt : Contributions]

diluent_entry(k, pressure, diluent, pressure_time) ==
    [fill_entry(k, 0, pressure, pressure_time)
        EXCEPT !.diluentpressure[SENSOR_PR] = diluent]

IsDiluentProfile(p, n) ==
    \E samples \in [1 .. n -> DiluentSamples] :
        /\ \A pt \in Contributions : samples[1].pt <= pt
        /\ p = [nr |-> n,
                entry |-> [k \in 1 .. n |->
                              diluent_entry(k, samples[k].pressure,
                                            samples[k].diluent,
                                            IF k = 1 THEN 0 ELSE samples[k].pt)]]

\* what may lie behind the arrays: no chain or the chain of a cylinder, and
\* some number
Beyond == [track : {<<>>, track_pr[0]}, cur_pr : {-1, 0, 4711}]

InitDiluent ==
    /\ \E n \in 1 .. MaxDiluent : IsDiluentProfile(pi, n)
    /\ pi_in = pi
    /\ \E s \in {scan_from(scan_start(pi), 0,
                           [k \in 1 .. pi.nr |-> pi.entry[k].pressure_time])} :
          /\ track_scan = s.track_pr
          /\ track_pr = s.track_pr
          /\ missing_pr = s.missing_pr
          /\ heap = [allocated |-> s.allocated, freed |-> <<>>]
          /\ access = s.access
    /\ stored = NothingStored
    /\ division = NothingDivided
    /\ calls = 0

DiluentPass ==
    /\ calls = 0
    /\ \E beyond \in Beyond :
          \E f \in {diluent_tank_pressures(pi, track_pr, beyond)} :
              /\ pi' = f.pi
              /\ track_pr' = f.track_pr
              /\ stored' = f.stored
              /\ division' = f.division
    /\ calls' = 1
    /\ UNCHANGED <<pi_in, track_scan, missing_pr, heap, access>>

NextDiluent == DiluentPass

SpecDiluent == InitDiluent /\ [][NextDiluent]_vars

----------------------------------------------------------------------------
(* populate_pressure_information on the profiles of one cylinder at one    *)
(* depth whose transmitter reports what it likes: a reading may be higher  *)
(* than the one before, and an entry may share its time with the entry     *)
(* before it                                                               *)

\* an entry is a second entry for the instant of its predecessor or a
\* sample one time step later, with a reading or none
InstantSamples == [later : BOOLEAN, pressure : InstantReadings]

RECURSIVE instant_entries(_, _)
instant_entries(samples, n) ==
    IF n = 1
        THEN <<plot_data(0, InstantDepth, 0, samples[1].pressure)>>
        ELSE LET before == instant_entries(samples, n - 1)
                 sec == before[n - 1].sec
                            + (IF samples[n].later THEN TimeStep ELSE 0)
             IN Append(before,
                       plot_data(sec, InstantDepth, 0, samples[n].pressure))

IsInstantProfile(p, n) ==
    \E samples \in [1 .. n -> InstantSamples] :
        /\ samples[1].later
        /\ p = [nr |-> n, entry |-> instant_entries(samples, n)]

InitInstant ==
    /\ \E n \in 1 .. MaxInstant : IsInstantProfile(pi, n)
    /\ pi_in = pi
    /\ track_scan = NoTracks
    /\ track_pr = NoTracks
    /\ missing_pr = FALSE
    /\ stored = NothingStored
    /\ division = NothingDivided
    /\ heap = [allocated |-> 0, freed |-> <<>>]
    /\ access = NothingAccessed
    /\ calls = 0

SpecInstant == InitInstant /\ [][Next]_vars

----------------------------------------------------------------------------
(* Properties *)

Called == calls >= 1

\* fill_missing_tank_pressures has run
Filled == Called /\ missing_pr

\* C indices of the entries
Indices == 0 .. pi.nr - 1

In(i) == pi_in.entry[i + 1]

Out(i) == pi.entry[i + 1]

UsedCylinders == {In(i).cylinderindex : i \in Indices}

\* the pressure drop a segment is left with
Drop(segment) == segment.start - segment.end

\* C1: in every run of segments whose first start and last end are known,
\* fill_missing_segment_pressures leaves the first start and the last end as
\* they were, whatever the pressure-times (0 included); no end that came from
\* a sensor reading is replaced by another value.
C1_BoundaryExactness ==
    Filled =>
        \A cyl \in UsedCylinders :
            LET before == track_scan[cyl]
                after == track_pr[cyl]
                runs == runs_from(before, 1)
            IN /\ \A r \in 1 .. Len(runs) :
                      LET first == runs[r].first
                          last == runs[r].last
                      IN (before[first].start # 0 /\ before[last].end # 0) =>
                             /\ after[first].start = before[first].start
                             /\ after[last].end = before[last].end
               /\ \A k \in 1 .. Len(before) :
                      before[k].end # 0 => after[k].end = before[k].end

\* C2: populate_pressure_information never changes the reported (sensor)
\* pressure slot of an entry: whatever it computes or carries forward goes
\* to the interpolated slot.
C2_ReportedSlotUntouched ==
    Called =>
        \A i \in Indices : SENSOR_PRESSURE(Out(i)) = SENSOR_PRESSURE(In(i))

\* C3: after populate_pressure_information every entry of index >= 1 that has
\* no sensor reading has been assigned a value in its interpolated slot.
\* Stated for the calls in which the gap-filling pass has run.
C3_AbsentReadingsInterpolated ==
    Filled =>
        \A i \in Indices :
            (i >= 1 /\ SENSOR_PRESSURE(In(i)) = 0) => i \in stored.interpolated

\* C4: an entry that comes with a real sensor reading keeps both its reported
\* and its interpolated pressure slot as they were; nothing is stored into it.
C4_ReadingsAuthoritative ==
    Called =>
        \A i \in Indices :
            SENSOR_PRESSURE(In(i)) # 0 =>
                /\ Out(i).pressure = In(i).pressure
                /\ i \notin stored.sensor \cup stored.interpolated

\* C4 witness: the gap-filling pass ran and stored an interpolated pressure
\* into some entry, after an entry of index >= 1 that has a reading
C4_Witness ==
    /\ Filled
    /\ \E i, j \in Indices :
          /\ 1 <= i /\ i < j
          /\ SENSOR_PRESSURE(In(i)) # 0
          /\ j \in stored.interpolated
          /\ INTERPOLATED_PRESSURE(Out(j)) # 0

AllResolved(p) == \A k \in 1 .. p.nr : SENSOR_PRESSURE(p.entry[k]) # 0

\* C5: on a profile all of whose entries have a real reading, a call changes
\* no interpolated and no reported slot, and a second call leaves every field
\* of every entry as the first call left it.
C5_IdempotentOnResolved ==
    (Called /\ AllResolved(pi_in)) =>
        /\ \A i \in Indices : Out(i).pressure = In(i).pressure
        /\ calls >= 2 => pi = pi_in

\* C5 witness: the second call on a resolved profile that has pressure-time
C5_Witness ==
    /\ calls = 2
    /\ AllResolved(pi_in)
    /\ pi.nr >= 3
    /\ \E i \in Indices : Out(i).pressure_time > 0

\* the runs of the chain of a cylinder that go over more than one segment
\* and lose pressure
DecreasingRuns(cyl) ==
    LET runs == runs_from(track_scan[cyl], 1)
    IN {runs[r] : r \in {q \in 1 .. Len(runs) :
                            /\ runs[q].last > runs[q].first
                            /\ runs[q].start > runs[q].end}}

\* segment a of the chain has strictly more pressure-time than segment b
MorePressureTime(cyl, a, b) ==
    track_scan[cyl][a].pressure_time > track_scan[cyl][b].pressure_time

\* C6 as stated: in a run that loses pressure, a segment with strictly more
\* pressure-time than another gets a drop at least as large.
C6_MonotonicScaling ==
    Filled =>
        \A cyl \in UsedCylinders :
            \A run \in DecreasingRuns(cyl) :
                \A a, b \in run.first .. run.last :
                    MorePressureTime(cyl, a, b) =>
                        Drop(track_pr[cyl][a]) >= Drop(track_pr[cyl][b])

\* C6 amended: in a run that loses pressure, a segment with strictly more
\* pressure-time than another gets a drop that is at least the other's
\* drop minus 1, the unit lost to integer truncation.
C6_MonotonicScalingUpToOne ==
    Filled =>
        \A cyl \in UsedCylinders :
            \A run \in DecreasingRuns(cyl) :
                \A a, b \in run.first .. run.last :
                    MorePressureTime(cyl, a, b) =>
                        Drop(track_pr[cyl][a]) >= Drop(track_pr[cyl][b]) - 1

\* C6 witness: a redistributed run that loses pressure over two segments
\* that both have pressure-time, the first more than the second, and both
\* get a drop
C6_Witness ==
    /\ Filled
    /\ \E cyl \in UsedCylinders :
          \E run \in DecreasingRuns(cyl) :
              \E a, b \in run.first .. run.last :
                  /\ a < b
                  /\ MorePressureTime(cyl, a, b)
                  /\ track_scan[cyl][b].pressure_time > 0
                  /\ Drop(track_pr[cyl][a]) > 0
                  /\ Drop(track_pr[cyl][b]) > 0

\* the mean depth of the interval that ends at entry i, as the code takes it
MeanDepth(i) == (In(i - 1).depth + In(i).depth) \div 2

\* the cylinders all of whose intervals are at or above the surface
\* threshold: the intervals that begin or end at one of their entries
ShallowCylinders ==
    {c \in UsedCylinders :
        \A i \in Indices :
            (i >= 1 /\ c \in {In(i - 1).cylinderindex, In(i).cylinderindex}) =>
                MeanDepth(i) <= SURFACE_THRESHOLD}

\* the last known pressure of cylinder c at entry i: the latest real reading
\* of c among the entries 1..i, or else the start the chain of c is seeded with
RECURSIVE LastKnown(_, _)
LastKnown(c, i) ==
    IF i < 1 THEN track_pr[c][1].start
    ELSE IF In(i).cylinderindex = c /\ SENSOR_PRESSURE(In(i)) # 0
        THEN SENSOR_PRESSURE(In(i))
    ELSE LastKnown(c, i - 1)

\* C7: for a cylinder all of whose intervals are at or above the surface
\* threshold, every pressure-time contribution and every segment
\* pressure-time is 0, and every entry of it without a reading gets the last
\* known pressure of the cylinder as its interpolated value.  Stated for the
\* entries the gap-filling pass goes through (index >= 1, the pass having run).
C7_ZeroWorkloadFlat ==
    Filled =>
        \A c \in ShallowCylinders :
            /\ \A i \in Indices :
                  (i >= 1 /\ In(i).cylinderindex = c) => Out(i).pressure_time = 0
            /\ \A k \in 1 .. Len(track_scan[c]) : track_scan[c][k].pressure_time = 0
            /\ \A i \in Indices :
                  (i >= 1 /\ In(i).cylinderindex = c /\ SENSOR_PRESSURE(In(i)) = 0) =>
                      INTERPOLATED_PRESSURE(Out(i)) = LastKnown(c, i - 1)

\* the cylinders in use that have no reading on any of their entries
SilentCylinders ==
    {c \in UsedCylinders :
        \A i \in Indices : In(i).cylinderindex = c => SENSOR_PRESSURE(In(i)) = 0}

\* C8: for a cylinder without any reading the chain is seeded with 0 and
\* every value stored into one of its entries is that 0: no -1 and no value
\* that comes from another cylinder.
C8_NoDataStaysUnset ==
    Filled =>
        \A c \in SilentCylinders :
            /\ track_pr[c][1].start = 0
            /\ \A i \in Indices :
                  In(i).cylinderindex = c =>
                      /\ i \in stored.sensor => SENSOR_PRESSURE(Out(i)) = 0
                      /\ i \in stored.interpolated => INTERPOLATED_PRESSURE(Out(i)) = 0

\* the scenario: one cylinder, entries at t = 0, 10, 20, 30 with the
\* readings 200, none, none, 170 and the contributions 5, 5, 10
C9_Scenario ==
    /\ pi_in.nr = 4
    /\ \A k \in 1 .. 4 :
          /\ pi_in.entry[k].cylinderindex = 0
          /\ pi_in.entry[k].sec = <<0, 10, 20, 30>>[k]
          /\ SENSOR_PRESSURE(pi_in.entry[k]) = <<200, 0, 0, 170>>[k]
    /\ \A k \in 2 .. 4 : pi_in.entry[k].pressure_time = <<0, 5, 5, 10>>[k]

\* C9 as stated: in the scenario the entry at t = 20 gets 185 and the entry
\* at t = 10 gets 192.5 rounded half away from zero, 193.
C9_ScenarioHalfAway ==
    (Called /\ C9_Scenario) =>
        /\ INTERPOLATED_PRESSURE(Out(2)) = 185
        /\ INTERPOLATED_PRESSURE(Out(1)) = 193

\* C9 amended: in the scenario the entry at t = 20 gets 185 and the entry at
\* t = 10 gets 192.5 rounded as rint does it, to the even neighbour, 192.
C9_ScenarioHalfEven ==
    (Called /\ C9_Scenario) =>
        /\ INTERPOLATED_PRESSURE(Out(2)) = 185
        /\ INTERPOLATED_PRESSURE(Out(1)) = 192

\* C9 witness: the gap-filling pass has interpolated the two entries of the
\* scenario that have no reading
C9_Witness ==
    /\ Called
    /\ C9_Scenario
    /\ stored.interpolated = {1, 2}
    /\ stored.sensor = {}

\* C10 as stated: the pressure-time written on the later entry of a pair is
\* mean depth x elapsed time x ambient pressure at the mean depth if the mean
\* depth exceeds the surface threshold, and 0 otherwise or if no time elapsed.
C10_WorkloadWithDepthFactor ==
    Called =>
        \A i \in Indices :
            i >= 1 =>
                Out(i).pressure_time =
                    IF MeanDepth(i) > SURFACE_THRESHOLD
                        THEN MeanDepth(i) * (In(i).sec - In(i - 1).sec)
                                 * depth_to_mbar(MeanDepth(i), dive)
                        ELSE 0

\* C10 amended: the pressure-time written on the later entry of a pair is
\* elapsed time x ambient pressure at the mean depth (the integer mean of the
\* two depths) if the mean depth exceeds the surface threshold, and 0
\* otherwise or if no time elapsed; the mean depth is no factor of it.
C10_WorkloadFormula ==
    Called =>
        \A i \in Indices :
            i >= 1 =>
                Out(i).pressure_time =
                    IF MeanDepth(i) > SURFACE_THRESHOLD
                        THEN (In(i).sec - In(i - 1).sec)
                                 * depth_to_mbar(MeanDepth(i), dive)
                        ELSE 0

\* C10 witness: a call has written a positive pressure-time on an entry at
\* which the cylinder changes, 0 on an entry of a shallow interval that takes
\* time, and 0 on an entry of a deep interval that takes no time
C10_Witness ==
    /\ Called
    /\ \E i, j, k \in Indices :
          /\ i >= 1 /\ j >= 1 /\ k >= 1
          /\ Out(i).pressure_time > 0
          /\ In(i).cylinderindex # In(i - 1).cylinderindex
          /\ MeanDepth(j) <= SURFACE_THRESHOLD /\ In(j).sec > In(j - 1).sec
          /\ Out(j).pressure_time = 0
          /\ MeanDepth(k) > SURFACE_THRESHOLD /\ In(k).sec = In(k - 1).sec
          /\ Out(k).pressure_time = 0

----------------------------------------------------------------------------
(* The segments of the build scan, told from the entries of the profile *)

\* entry i opens a segment: it is the first entry, or it is on another
\* cylinder than entry i - 1, or it has a reading and entry i - 1, on the
\* same cylinder, has none
Opens(i) ==
    \/ i = 0
    \/ In(i).cylinderindex # In(i - 1).cylinderindex
    \/ SENSOR_PRESSURE(In(i)) # 0 /\ SENSOR_PRESSURE(In(i - 1)) = 0

OpeningEntries == {i \in Indices : Opens(i)}

\* the place in the chain of its cylinder of the segment that entry i opens
Position(i) ==
    Cardinality({j \in OpeningEntries :
                    j <= i /\ In(j).cylinderindex = In(i).cylinderindex})

\* the entry at which the segment that entry i opens is closed: the next
\* entry that opens a segment, or the last entry
ClosingEntry(i) ==
    LET later == {j \in OpeningEntries : j > i}
    IN IF later = {} THEN pi.nr - 1
       ELSE CHOOSE j \in later : \A k \in later : j <= k

\* the sum of the pressure-time contributions written on the entries from..to
RECURSIVE Contribution(_, _)
Contribution(from, to) ==
    IF from > to THEN 0
    ELSE Out(to).pressure_time + Contribution(from, to - 1)

\* the sum of the pressure-times of the segments 1..k of a chain
RECURSIVE ChainPressureTime(_, _)
ChainPressureTime(list, k) ==
    IF k = 0 THEN 0
    ELSE list[k].pressure_time + ChainPressureTime(list, k - 1)

\* the sum of the pressure-times of the segments of the chains of 0..cyl
RECURSIVE TablePressureTime(_, _)
TablePressureTime(tracks, cyl) ==
    IF cyl < 0 THEN 0
    ELSE ChainPressureTime(tracks[cyl], Len(tracks[cyl]))
             + TablePressureTime(tracks, cyl - 1)

\* C11: after the build scan the pressure-time of a segment is the sum of
\* the contributions of the entries after its opening entry up to and
\* including the entry at which it is closed, and the pressure-times of all
\* segments of all chains add up to the contributions of the entries 1..n-1.
C11_PressureTimeAccounting ==
    Called =>
        /\ \A i \in OpeningEntries :
              /\ Position(i) <= Len(track_scan[In(i).cylinderindex])
              /\ track_scan[In(i).cylinderindex][Position(i)].pressure_time
                     = Contribution(i + 1, ClosingEntry(i))
        /\ TablePressureTime(track_scan, MAX_CYLINDERS - 1)
               = Contribution(1, pi.nr - 1)

\* C11 witness: a segment is closed by a switch to another cylinder at an
\* entry that has a contribution, and the segment that the switch opens
\* gets a contribution of its own
C11_Witness ==
    /\ Called
    /\ \E i, j \in OpeningEntries :
          /\ j = ClosingEntry(i) /\ i < j
          /\ In(j).cylinderindex # In(i).cylinderindex
          /\ Out(j).pressure_time > 0
          /\ track_scan[In(i).cylinderindex][Position(i)].pressure_time
                 >= Out(j).pressure_time
          /\ track_scan[In(j).cylinderindex][Position(j)].pressure_time > 0

\* C12: after the build scan of a profile with non-decreasing times every
\* segment has t_start <= t_end, and of two consecutive segments of a chain
\* the earlier one ends no later than the later one starts.
C12_ChainTimeOrdering ==
    Called =>
        \A cyl \in UsedCylinders :
            LET list == track_scan[cyl]
            IN /\ \A k \in 1 .. Len(list) : list[k].t_start <= list[k].t_end
               /\ \A k \in 1 .. Len(list) - 1 : list[k].t_end <= list[k + 1].t_start

\* C12 witness: a chain of three segments, the first of which takes time,
\* the second starts when the first ends, and the third starts later than
\* the second ends
C12_Witness ==
    /\ Called
    /\ \E cyl \in UsedCylinders :
          LET list == track_scan[cyl]
          IN /\ Len(list) >= 3
             /\ list[1].t_start < list[1].t_end
             /\ list[1].t_end = list[2].t_start
             /\ list[2].t_end < list[3].t_start

\* the runs of the chain of a cylinder that have no pressure-time at all
FlatRuns(cyl) ==
    LET runs == runs_from(track_scan[cyl], 1)
    IN {runs[r] : r \in {q \in 1 .. Len(runs) : runs[q].pt_sum = 0}}

\* C13: no division by zero is evaluated.  The proportional term of a run is
\* computed only if the pressure-time sum of the run is not 0, and else every
\* boundary of the run is its start; the rate of an entry is computed only
\* if the pressure-time of its window is not 0, and else the entry gets the
\* last known pressure of its cylinder.
C13_NoDivisionByZero ==
    Filled =>
        /\ 0 \notin division.divisors
        /\ \A cyl \in UsedCylinders :
              \A run \in FlatRuns(cyl) :
                  \A k \in run.first .. run.last :
                      /\ track_pr[cyl][k].start = run.start
                      /\ track_pr[cyl][k].end = run.start
        /\ \A i \in division.skipped :
              /\ i \in stored.interpolated
              /\ INTERPOLATED_PRESSURE(Out(i))
                     = LastKnown(In(i).cylinderindex, i - 1)

\* C13 witness: the pass has doled out a run that has pressure-time and a
\* run that has none, and has left the rate out for an entry whose window
\* has no pressure-time though its segment has some
C13_Witness ==
    /\ Filled
    /\ division.divisors # {}
    /\ \E cyl \in UsedCylinders : FlatRuns(cyl) # {}
    /\ \E i \in division.skipped :
          /\ INTERPOLATED_PRESSURE(Out(i)) > 0
          /\ \E k \in 1 .. Len(track_pr[In(i).cylinderindex]) :
                track_pr[In(i).cylinderindex][k].pressure_time > 0

\* the diluent readings of the profile
DiluentKnown ==
    {DILUENT_PRESSURE(In(i)) : i \in Indices} \ {0}

\* the entries a pass has stored a pressure into
StoredInto == stored.sensor \cup stored.interpolated

\* C14: in a pass for the diluent that stores a pressure, the index used
\* for the diluent lies inside the chain table and the last-known-pressure
\* array (both of MAX_CYLINDERS elements) and is the index of no cylinder of
\* the profile, and what is stored for the diluent comes from the diluent
\* readings: it lies between the least and the greatest of them.
C14_DiluentIndependence ==
    (Called /\ StoredInto # {}) =>
        /\ DILUENT_CYLINDER \in DOMAIN track_pr
        /\ DILUENT_CYLINDER \in 0 .. MAX_CYLINDERS - 1
        /\ DILUENT_CYLINDER \notin UsedCylinders
        /\ \A i \in StoredInto :
              \A v \in {Out(i).diluentpressure[SENSOR_PR],
                        Out(i).diluentpressure[INTERPOLATED_PR]} \ {0} :
                  /\ \E r \in DiluentKnown : r <= v
                  /\ \E r \in DiluentKnown : v <= r

\* how often an address occurs in a sequence of addresses
Occurrences(addr, addrs) ==
    Cardinality({k \in 1 .. Len(addrs) : addrs[k] = addr})

\* the places (cylinder, position) at which an address is linked into a chain
Links(addr) ==
    {x \in UNION {{[cyl |-> cyl, idx |-> k] : k \in 1 .. Len(track_pr[cyl])} :
                     cyl \in DOMAIN track_pr} :
        track_pr[x.cyl][x.idx].addr = addr}

\* C15: every segment allocated during a call is linked into exactly one
\* chain, at one place, and has been freed exactly once when the call
\* returns, and nothing else is freed; whether or not the gap-filling pass ran.
C15_SegmentLifetime ==
    Called =>
        /\ \A addr \in 1 .. heap.allocated :
              /\ Cardinality(Links(addr)) = 1
              /\ Occurrences(addr, heap.freed) = 1
        /\ Len(heap.freed) = heap.allocated

\* C15 witness: a call in which the gap-filling pass ran has allocated
\* three segments or more, in two chains, one of which has two or more
C15_Witness ==
    /\ Filled
    /\ heap.allocated >= 3
    /\ Len(track_pr[0]) >= 2
    /\ Len(track_pr[1]) >= 1
    /\ Len(heap.freed) >= 3

\* the entries at which the cylinder changes
Changes ==
    {i \in Indices : i >= 1 /\ In(i).cylinderindex # In(i - 1).cylinderindex}

\* the entries at which a transmitter is heard again: same cylinder, a
\* reading, and none on the entry before
Recoveries ==
    {i \in Indices :
        /\ i >= 1
        /\ In(i).cylinderindex = In(i - 1).cylinderindex
        /\ SENSOR_PRESSURE(In(i)) # 0
        /\ SENSOR_PRESSURE(In(i - 1)) = 0}

\* the number of segments in the chains of the cylinders 0..cyl
RECURSIVE Segments(_, _)
Segments(tracks, cyl) ==
    IF cyl < 0 THEN 0 ELSE Len(tracks[cyl]) + Segments(tracks, cyl - 1)

\* C16: the build scan opens a segment at entry i exactly when i is the
\* first entry, or the cylinder changes at i, or the cylinder stays, i has a
\* reading and i - 1 has none.  The segment starts with the reading of entry
\* i (0 if none) at the time of entry i and is appended at the tail of the
\* chain of the cylinder of entry i; as opened it has t_end = t_start,
\* pressure-time 0 and end 0, which is how a segment opened at the last
\* entry is left.  The number of segments of a profile that is not empty is
\* 1 + the number of cylinder changes + the number of recoveries.
C16_SegmentOpeningRule ==
    Called =>
        /\ \A i \in OpeningEntries :
              LET list == track_scan[In(i).cylinderindex]
                  opened == list[Position(i)]
              IN /\ Position(i) <= Len(list)
                 /\ opened.addr = Cardinality({j \in OpeningEntries : j <= i})
                 /\ opened.start = SENSOR_PRESSURE(In(i))
                 /\ opened.t_start = In(i).sec
                 /\ i = pi.nr - 1 =>
                       /\ Position(i) = Len(list)
                       /\ opened.t_end = opened.t_start
                       /\ opened.pressure_time = 0
                       /\ opened.end = 0
        /\ heap.allocated = Cardinality(OpeningEntries)
        /\ Segments(track_scan, MAX_CYLINDERS - 1) = Cardinality(OpeningEntries)
        /\ pi.nr > 0 =>
              Segments(track_scan, MAX_CYLINDERS - 1)
                  = 1 + Cardinality(Changes) + Cardinality(Recoveries)

\* C16 witness: a profile with a cylinder change and a recovery, an entry
\* without a reading that opens a segment, an entry that opens none, and a
\* segment opened at the last entry
C16_Witness ==
    /\ Called
    /\ Changes # {}
    /\ Recoveries # {}
    /\ \E i \in OpeningEntries : SENSOR_PRESSURE(In(i)) = 0
    /\ \E i \in Indices : ~Opens(i)
    /\ Opens(pi.nr - 1)

\* the entry that opened the segment that is current when entry i is reached
OpenedBefore(i) ==
    CHOOSE j \in OpeningEntries : j < i /\ \A k \in OpeningEntries : k < i => k <= j

\* entry i is on the cylinder of entry i - 1 and both have a reading
Continuous(i) ==
    /\ i >= 1
    /\ In(i).cylinderindex = In(i - 1).cylinderindex
    /\ SENSOR_PRESSURE(In(i)) # 0
    /\ SENSOR_PRESSURE(In(i - 1)) # 0

\* C17: at a recovery (entry i on the cylinder of entry i - 1, with a
\* reading, entry i - 1 without) the segment being closed ends with the
\* reading and the time of entry i and has the interval (i - 1, i) in its
\* pressure-time, and the fresh segment follows it in the chain and starts at
\* that time with that pressure.  Where entries i - 1 and i both have a
\* reading on the same cylinder no segment is opened and the end of the
\* current segment becomes the reading of entry i: it is left so if no later
\* entry of the cylinder with a reading follows while the segment is current.
C17_TransmitterRecovery ==
    Called =>
        /\ \A i \in Recoveries :
              LET list == track_scan[In(i).cylinderindex]
                  closed == list[Position(OpenedBefore(i))]
                  fresh == list[Position(i)]
              IN /\ In(OpenedBefore(i)).cylinderindex = In(i).cylinderindex
                 /\ Position(i) = Position(OpenedBefore(i)) + 1
                 /\ closed.end = SENSOR_PRESSURE(In(i))
                 /\ closed.t_end = In(i).sec
                 /\ closed.pressure_time
                        = Contribution(OpenedBefore(i) + 1, i)
                 /\ fresh.start = SENSOR_PRESSURE(In(i))
                 /\ fresh.t_start = In(i).sec
        /\ \A i \in Indices :
              Continuous(i) =>
                  /\ ~Opens(i)
                  /\ (\A j \in Indices :
                         (i < j /\ j <= ClosingEntry(OpenedBefore(i))) =>
                             SENSOR_PRESSURE(In(j)) = 0 \/ j \in Changes)
                         => track_scan[In(i).cylinderindex]
                                [Position(OpenedBefore(i))].end
                                = SENSOR_PRESSURE(In(i))

\* C17 witness: a recovery at an entry that has a contribution, and a
\* segment left with the reading of a continuous entry as its end
C17_Witness ==
    /\ Called
    /\ \E i \in Recoveries :
          /\ Out(i).pressure_time > 0
          /\ track_scan[In(i).cylinderindex][Position(OpenedBefore(i))]
                 .pressure_time >= Out(i).pressure_time
    /\ \E i \in Indices :
          /\ Continuous(i)
          /\ track_scan[In(i).cylinderindex][Position(OpenedBefore(i))].end
                 = SENSOR_PRESSURE(In(i))

\* the entries that stay on the cylinder of the entry before and have no
\* reading
Gaps ==
    {i \in Indices :
        /\ i >= 1
        /\ In(i).cylinderindex = In(i - 1).cylinderindex
        /\ SENSOR_PRESSURE(In(i)) = 0}

\* C18: the gap-filling pass is run exactly when an entry that stays on the
\* cylinder of the entry before has no reading; a missing reading on the
\* first entry or on an entry at which the cylinder changes does not set the
\* flag.  When the flag is not set no pressure slot of any entry is written
\* and the chains are left as the scan built them; when it is set the pass
\* has filled the chains and stored a pressure into every entry after the
\* first that has no reading.
C18_GapFillingGate ==
    Called =>
        /\ missing_pr <=> Gaps # {}
        /\ ~missing_pr =>
              /\ stored = NothingStored
              /\ division = NothingDivided
              /\ track_pr = track_scan
              /\ \A i \in Indices :
                    /\ Out(i).pressure = In(i).pressure
                    /\ Out(i).diluentpressure = In(i).diluentpressure
        /\ missing_pr =>
              /\ track_pr = filled_tracks(track_scan)
              /\ StoredInto =
                     {i \in Indices : i >= 1 /\ SENSOR_PRESSURE(In(i)) = 0}

\* C18 witness: a call on a profile whose first entry has no reading and
\* that has an entry without a reading at which the cylinder changes, whose
\* segment has pressure-time, and the pass was not run
C18_Witness ==
    /\ Called
    /\ ~missing_pr
    /\ pi.nr > 0
    /\ SENSOR_PRESSURE(In(0)) = 0
    /\ \E i \in Changes :
          /\ SENSOR_PRESSURE(In(i)) = 0
          /\ track_scan[In(i).cylinderindex][Position(i)].pressure_time > 0

\* all the runs of the chain of a cylinder
Runs(cyl) ==
    LET runs == runs_from(track_scan[cyl], 1)
    IN {runs[r] : r \in 1 .. Len(runs)}

\* the pressure-time of the segments first..k of the chain of a cylinder
RECURSIVE RunPressureTime(_, _, _)
RunPressureTime(cyl, first, k) ==
    IF k < first THEN 0
    ELSE track_scan[cyl][k].pressure_time + RunPressureTime(cyl, first, k - 1)

\* start - (start - end) * pt / pt_sum as a fraction of pt_sum
Share(run, pt) == run.start * run.pt_sum - (run.start - run.end) * pt

\* v is the real number n / d, d > 0, with its fraction cut off
IsTruncation(v, n, d) ==
    IF n >= 0 THEN v * d <= n /\ n < (v + 1) * d
    ELSE (v - 1) * d < n /\ n <= v * d

\* C19: in a run with the boundary pressures start and end and a
\* pressure-time sum pt_sum > 0 the end of the k-th segment is
\* start - (start - end) * P_k / pt_sum truncated toward zero, P_k being the
\* pressure-time of the segments 1..k of the run, and every later segment
\* starts with the end of the one before; if pt_sum = 0 every start and end
\* of the run is start.
C19_RedistributionFormula ==
    Filled =>
        \A cyl \in UsedCylinders :
            \A run \in Runs(cyl) :
                \A k \in run.first .. run.last :
                    LET after == track_pr[cyl]
                        P_k == RunPressureTime(cyl, run.first, k)
                    IN /\ after[k].start =
                              IF k = run.first THEN run.start ELSE after[k - 1].end
                       /\ run.pt_sum = RunPressureTime(cyl, run.first, run.last)
                       /\ run.pt_sum > 0 =>
                              IsTruncation(after[k].end, Share(run, P_k), run.pt_sum)
                       /\ run.pt_sum = 0 =>
                              after[k].start = run.start /\ after[k].end = run.start

\* C19 witness: a run over two segments or more that loses pressure, with a
\* boundary between its start and its end that is no whole number before it
\* is truncated
C19_Witness ==
    /\ Filled
    /\ \E cyl \in UsedCylinders :
          \E run \in Runs(cyl) :
              /\ run.last > run.first
              /\ run.start > run.end
              /\ run.pt_sum > 0
              /\ \E k \in run.first .. run.last :
                    /\ Share(run, RunPressureTime(cyl, run.first, k)) % run.pt_sum # 0
                    /\ track_pr[cyl][k].end < run.start
                    /\ track_pr[cyl][k].end > run.end

\* segment k of the chain of a cylinder is the last of a run: it has a
\* known end, or it is the last of the chain
EndsRun(cyl, k) ==
    track_scan[cyl][k].end # 0 \/ k = Len(track_scan[cyl])

\* the segments that are the first of a run
RunStarts(cyl) ==
    {k \in 1 .. Len(track_scan[cyl]) : k = 1 \/ EndsRun(cyl, k - 1)}

\* the last segment of the run that segment f is the first of
RunEnd(cyl, f) ==
    CHOOSE l \in f .. Len(track_scan[cyl]) :
        EndsRun(cyl, l) /\ \A k \in f .. l - 1 : ~EndsRun(cyl, k)

\* every start and end of the segments f..l of the chain is v
AllBoundaries(cyl, f, l, v) ==
    \A k \in f .. l : track_pr[cyl][k].start = v /\ track_pr[cyl][k].end = v

\* C20: fill_missing_segment_pressures goes through a chain run by run, a
\* run ending at the first segment that has a known end or at the last
\* segment of the chain.  A run that reaches the end of the chain without a
\* known end takes the start of its first segment for its end, and every
\* boundary in it is that start; a run whose first segment has no known
\* start takes its end for its start, and every boundary in it is that end.
C20_RunDelimitation ==
    Filled =>
        \A cyl \in UsedCylinders :
            LET before == track_scan[cyl]
            IN /\ {[first |-> run.first, last |-> run.last] : run \in Runs(cyl)}
                      = {[first |-> f, last |-> RunEnd(cyl, f)] : f \in RunStarts(cyl)}
               /\ \A f \in RunStarts(cyl) :
                      LET l == RunEnd(cyl, f)
                      IN /\ before[l].end = 0 =>
                                AllBoundaries(cyl, f, l, before[f].start)
                         /\ before[f].start = 0 =>
                                AllBoundaries(cyl, f, l, before[l].end)

\* C20 witness: a chain with a run that has pressure-time, no known start
\* and a known end, followed by a run that has pressure-time and a known
\* start and reaches the end of the chain without a known end
C20_Witness ==
    /\ Filled
    /\ \E cyl \in UsedCylinders :
          \E f, g \in RunStarts(cyl) :
              /\ g = RunEnd(cyl, f) + 1
              /\ track_scan[cyl][f].start = 0
              /\ track_scan[cyl][RunEnd(cyl, f)].end # 0
              /\ RunPressureTime(cyl, f, RunEnd(cyl, f)) > 0
              /\ track_scan[cyl][g].start # 0
              /\ track_scan[cyl][RunEnd(cyl, g)].end = 0
              /\ RunPressureTime(cyl, g, RunEnd(cyl, g)) > 0

\* a chain has a known (non-zero) start or end
HasKnownBoundary(list) ==
    \E k \in 1 .. Len(list) : list[k].start # 0 \/ list[k].end # 0

\* C21: after fill_missing_segment_pressures has gone through a chain that
\* had a known start or a known end, no segment of the chain has a start or
\* an end of 0.
C21_NoUnknownBoundaryLeft ==
    Filled =>
        \A cyl \in UsedCylinders :
            HasKnownBoundary(track_scan[cyl]) =>
                \A k \in 1 .. Len(track_pr[cyl]) :
                    track_pr[cyl][k].start # 0 /\ track_pr[cyl][k].end # 0

\* entries p < q on the same cylinder that both have a reading, with only
\* entries of that cylinder without a reading between them
Gap(p, q) ==
    /\ p < q
    /\ SENSOR_PRESSURE(In(p)) # 0
    /\ SENSOR_PRESSURE(In(q)) # 0
    /\ In(q).cylinderindex = In(p).cylinderindex
    /\ \A i \in p + 1 .. q - 1 :
          /\ In(i).cylinderindex = In(p).cylinderindex
          /\ SENSOR_PRESSURE(In(i)) = 0

\* the times of the profile are strictly increasing
IncreasingTimes == \A i \in Indices : i > 0 => In(i - 1).sec < In(i).sec

\* R1 + (R2 - R1) * A_i / W as a fraction of W, for entry i of the gap p..q
Interpolation(p, q, i) ==
    SENSOR_PRESSURE(In(p)) * Contribution(p + 1, q)
        + (SENSOR_PRESSURE(In(q)) - SENSOR_PRESSURE(In(p))) * Contribution(p + 1, i)

\* v is an integer nearest to the real number n / d, d > 0
IsNearest(v, n, d) == 2 * Abs(v * d - n) <= d

\* C22: on a profile with strictly increasing times, between two entries
\* p < q of one cylinder that have the readings R1 and R2, with only entries
\* of that cylinder without a reading between them and a pressure-time
\* W > 0 over the intervals of (p, q], every entry i between them gets in
\* its interpolated slot R1 + (R2 - R1) * A_i / W rounded to the nearest
\* integer, A_i being the pressure-time of the entries p+1..i.
C22_PointInterpolation ==
    (Called /\ IncreasingTimes) =>
        \A p, q \in Indices :
            (Gap(p, q) /\ Contribution(p + 1, q) > 0) =>
                \A i \in p + 1 .. q - 1 :
                    /\ i \in stored.interpolated
                    /\ IsNearest(INTERPOLATED_PRESSURE(Out(i)),
                                 Interpolation(p, q, i), Contribution(p + 1, q))

\* C22 witness: a gap of two entries between the readings 199 and 170, whose
\* first reading is neither the first entry nor the start of a segment, and
\* an entry of the gap whose interpolated value is no whole number before
\* it is rounded
C22_Witness ==
    /\ Called
    /\ IncreasingTimes
    /\ \E p, q \in Indices :
          /\ Gap(p, q)
          /\ q = p + 3
          /\ p > 0
          /\ In(p - 1).cylinderindex = In(p).cylinderindex
          /\ SENSOR_PRESSURE(In(p - 1)) # 0
          /\ SENSOR_PRESSURE(In(p)) > SENSOR_PRESSURE(In(q))
          /\ \E i \in p + 1 .. q - 1 :
                Interpolation(p, q, i) % Contribution(p + 1, q) # 0

\* the entry at which the cylinder of entry i was last switched away from
\* before entry i
SwitchAway(i) ==
    CHOOSE j \in Changes :
        /\ j < i
        /\ In(j - 1).cylinderindex = In(i).cylinderindex
        /\ \A k \in Changes :
              (k < i /\ In(k - 1).cylinderindex = In(i).cylinderindex) => k <= j

\* the entries at which a cylinder that was in use before is switched back to
SwitchBacks == {i \in Changes : Position(i) > 1}

\* C23 as stated: in every chain the build scan produces, each segment
\* starts at the t_end of the segment before it, also when the cylinder was
\* switched away from and later switched back to.
C23_ChainContiguity ==
    Called =>
        \A cyl \in UsedCylinders :
            LET list == track_scan[cyl]
            IN \A k \in 2 .. Len(list) : list[k].t_start = list[k - 1].t_end

\* C23 amended: in every chain the build scan produces, a segment opened by
\* a transmitter recovery starts at the t_end of the segment before it.  A
\* segment opened by a switch back to the cylinder starts at the time of
\* the entry that switches back, and the segment before it ends at the time
\* of the entry that switched away: the chain covers the periods in which
\* its cylinder is in use and leaves out the time between them.
C23_ContiguityWhileInUse ==
    Called =>
        /\ \A i \in Recoveries :
              LET list == track_scan[In(i).cylinderindex]
              IN list[Position(i)].t_start = list[Position(i) - 1].t_end
        /\ \A i \in SwitchBacks :
              LET list == track_scan[In(i).cylinderindex]
              IN /\ list[Position(i)].t_start = In(i).sec
                 /\ list[Position(i) - 1].t_end = In(SwitchAway(i)).sec
                 /\ list[Position(i) - 1].t_end <= list[Position(i)].t_start
        /\ \A cyl \in UsedCylinders :
              \A k \in 2 .. Len(track_scan[cyl]) :
                  \E i \in Recoveries \cup SwitchBacks :
                      In(i).cylinderindex = cyl /\ Position(i) = k

\* C23 witness: a segment opened by a recovery some time after the segment
\* before it was opened, and a cylinder that is switched back to later than
\* it was switched away from
C23_Witness ==
    /\ Called
    /\ \E i \in Recoveries :
          LET list == track_scan[In(i).cylinderindex]
          IN list[Position(i) - 1].t_start < list[Position(i)].t_start
    /\ \E i \in SwitchBacks : In(SwitchAway(i)).sec < In(i).sec

\* the profile as iteration i of the loop of fill_missing_tank_pressures
\* finds it: the pressures of the entries before i are the ones the pass
\* has left, the others are as they came in
PiAt(i) ==
    [pi EXCEPT !.entry =
        [k \in 1 .. pi.nr |->
            IF k - 1 < i THEN pi.entry[k]
            ELSE [pi.entry[k] EXCEPT !.pressure = pi_in.entry[k].pressure]]]

\* the interpolation window the pass sets up for entry i
Window(i) ==
    LET list == track_pr[In(i).cylinderindex]
    IN get_pr_interpolate_data(list[find_segment(list, 1, In(i).sec)],
                               PiAt(i), i, FALSE)

\* v lies between a and b, a and b included
Between(v, a, b) == (a <= v /\ v <= b) \/ (b <= v /\ v <= a)

\* the contributions the scan has written on the entries are not negative
NonNegativeContributions == \A i \in Indices : Out(i).pressure_time >= 0

\* C24 as stated: when fill_missing_tank_pressures computes a value from a window
\* whose pressure-time is not 0, the contributions being non-negative, the
\* accumulated pressure-time is between 0 and the pressure-time of the
\* window and the value written lies between the start and the end of the
\* window; and between two readings R1 >= R2 of one cylinder, with only
\* entries of that cylinder without a reading between them, the values
\* interpolated for successive entries do not increase.
C24_WithinBracket ==
    (Called /\ NonNegativeContributions) =>
        /\ \A i \in stored.interpolated :
              \A w \in {Window(i)} :
                  w.pressure_time # 0 =>
                      /\ 0 <= w.acc_pressure_time
                      /\ w.acc_pressure_time <= w.pressure_time
                      /\ Between(INTERPOLATED_PRESSURE(Out(i)), w.start, w.end)
        /\ \A p, q \in Indices :
              (Gap(p, q) /\ SENSOR_PRESSURE(In(p)) >= SENSOR_PRESSURE(In(q))) =>
                  \A i, j \in (p + 1 .. q - 1) \cap stored.interpolated :
                      i < j => INTERPOLATED_PRESSURE(Out(i))
                                   >= INTERPOLATED_PRESSURE(Out(j))

\* C24 amended: when fill_missing_tank_pressures computes a value from a
\* window whose pressure-time is not 0, the contributions being
\* non-negative, the accumulated pressure-time is between 0 and the
\* pressure-time of the window and the value written lies between the start
\* and the end of the window; and on a profile with strictly increasing
\* times, between two readings R1 >= R2 of one cylinder, with only entries
\* of that cylinder without a reading between them, the values interpolated
\* for successive entries do not increase.
C24_WithinBracketIncreasingTimes ==
    (Called /\ NonNegativeContributions) =>
        /\ \A i \in stored.interpolated :
              \A w \in {Window(i)} :
                  w.pressure_time # 0 =>
                      /\ 0 <= w.acc_pressure_time
                      /\ w.acc_pressure_time <= w.pressure_time
                      /\ Between(INTERPOLATED_PRESSURE(Out(i)), w.start, w.end)
        /\ IncreasingTimes =>
              \A p, q \in Indices :
                  (Gap(p, q) /\ SENSOR_PRESSURE(In(p)) >= SENSOR_PRESSURE(In(q))) =>
                      \A i, j \in (p + 1 .. q - 1) \cap stored.interpolated :
                          i < j => INTERPOLATED_PRESSURE(Out(i))
                                       >= INTERPOLATED_PRESSURE(Out(j))

\* C24 witness: a profile with strictly increasing times and a gap between
\* the readings R1 > R2 in which two entries get interpolated values from
\* windows with pressure-time, the later entry a lower value than the
\* earlier one and a value strictly between R2 and R1
C24_Witness ==
    /\ Called
    /\ NonNegativeContributions
    /\ IncreasingTimes
    /\ \E p, q \in Indices :
          /\ Gap(p, q)
          /\ SENSOR_PRESSURE(In(p)) > SENSOR_PRESSURE(In(q))
          /\ \E i, j \in (p + 1 .. q - 1) \cap stored.interpolated :
                /\ i < j
                /\ Window(i).pressure_time # 0
                /\ Window(j).pressure_time # 0
                /\ Window(j).acc_pressure_time < Window(j).pressure_time
                /\ INTERPOLATED_PRESSURE(Out(i)) > INTERPOLATED_PRESSURE(Out(j))
                /\ INTERPOLATED_PRESSURE(Out(j)) > SENSOR_PRESSURE(In(q))

\* C25: in the pass for the main track that populate_pressure_information
\* starts, the cylinder of every entry has a chain that is not empty, so
\* the last known pressure of the cylinder of an entry is never the -1 of a
\* cylinder without segment, and -1 is stored into no pressure slot.
C25_NoSentinelStored ==
    Filled =>
        /\ \A i \in Indices :
              /\ track_scan[In(i).cylinderindex] # <<>>
              /\ track_pr[In(i).cylinderindex] # <<>>
              /\ starting_pressures(track_pr)[In(i).cylinderindex] # -1
        /\ \A i \in stored.sensor : SENSOR_PRESSURE(Out(i)) # -1
        /\ \A i \in stored.interpolated : INTERPOLATED_PRESSURE(Out(i)) # -1
        /\ \A i \in Indices :
              SENSOR_PRESSURE(Out(i)) # -1 /\ INTERPOLATED_PRESSURE(Out(i)) # -1

\* C25 witness: a pass over a profile with two cylinders, one of them
\* without any reading, in which an entry gets the last known pressure of
\* its cylinder and another an interpolated one, while other cylinders have
\* no segment
C25_Witness ==
    /\ Filled
    /\ Cardinality(UsedCylinders) = 2
    /\ \E cyl \in UsedCylinders :
          \A i \in Indices :
              In(i).cylinderindex = cyl => SENSOR_PRESSURE(In(i)) = 0
    /\ stored.sensor # {}
    /\ stored.interpolated # {}
    /\ \E cyl \in 0 .. MAX_CYLINDERS - 1 : starting_pressures(track_pr)[cyl] = -1

\* C26: the build scan reads no entry before index 0 and writes no end
\* through a current that is NULL.  The first entry takes the branch of the
\* cylinder change, so its segment is the first one allocated; entry - 1 is
\* read at the entries 1 and later only, and every end is written through
\* a current that points to a segment of a chain.
C26_ScanAccessInBounds ==
    Called =>
        /\ \A j \in access.predecessor : j >= 0 /\ j <= pi.nr - 2
        /\ access.predecessor = {i - 1 : i \in Indices \ {0}}
        /\ NULL \notin access.current
        /\ \A c \in access.current :
              /\ c.cyl \in UsedCylinders
              /\ c.idx \in 1 .. Len(track_scan[c.cyl])
        /\ pi.nr > 0 =>
              /\ track_scan[In(0).cylinderindex] # <<>>
              /\ track_scan[In(0).cylinderindex][1].addr = 1
              /\ track_scan[In(0).cylinderindex][1].start = SENSOR_PRESSURE(In(0))

\* C26 witness: a scan of a profile whose first entry has a reading, that
\* has read entry - 1 at every entry after the first and has written ends
\* through current for two segments
C26_Witness ==
    /\ Called
    /\ pi.nr >= 3
    /\ SENSOR_PRESSURE(In(0)) # 0
    /\ access.predecessor = 0 .. pi.nr - 2
    /\ Cardinality(access.current) >= 2

====
